---- MODULE Spec2Model ----
(***************************************************************************)
(* State-vector simulator qESTkit: gate algebra, QuantumCircuit and the    *)
(* measurement sampler.                                                    *)
(*                                                                         *)
(* Numbers.  numpy's complex128 amplitudes are modelled exactly: every     *)
(* amplitude the gate set produces from a basis vector (for angles that    *)
(* are multiples of pi/2) lies in Z[w]/sqrt(2)^k with w = exp(i*pi/4).     *)
(* A ring element a + b*w + c*w^2 + d*w^3 is the tuple <<a, b, c, d>>;     *)
(* an array is a record [err, k, d, a] that stands for a / sqrt(2)^k,      *)
(* kept in lowest terms, so that equal arrays are equal records.           *)
(* err = TRUE stands for a raised Python exception.                        *)
(***************************************************************************)
EXTENDS Integers, Sequences, FiniteSets, TLC

VARIABLES
    num_qubits,   \* QuantumCircuit.num_qubits
    gates,        \* QuantumCircuit.gates
    state,        \* QuantumCircuit.state
    applied,      \* passes of apply() over the gate list since construction or reset
    ret,          \* what the last call on the circuit returned or raised
    call,         \* the last direct call of a gate method on a caller's array
    sampler,      \* arguments and locals of the last run_simulation / run_noisy_simulation
    draws,        \* per shot, what the random source gave the last sampler call
    measurement_results   \* the indices the last sampler call tallied, shot by shot

vars == <<num_qubits, gates, state, applied, ret, call, sampler, draws, measurement_results>>

\* the sampler's frame, untouched by the circuit's and the gates' own methods
samplerVars == <<sampler, draws, measurement_results>>

(* ------------------------------ bounds --------------------------------- *)
MaxQubits == 2
MaxGates == 2
MaxShots == 2
MaxApplies == 2
MaxDirectQubits == 3
MaxTheta == 3
MaxNoisyShots == 1
MaxGroverQubits == 6
MaxUnitaryQubits == 3
MaxUnitaryGates == 2

(* --------------------------- integer helpers --------------------------- *)
RECURSIVE Pow2(_)
Pow2(n) == IF n <= 0 THEN 1 ELSE 2 * Pow2(n - 1)

RECURSIVE Log2(_)
Log2(d) == IF d <= 1 THEN 0 ELSE 1 + Log2(d \div 2)

(* ------------------------ the ring Z[w], w^4 = -1 ---------------------- *)
CZero == <<0, 0, 0, 0>>
COne == <<1, 0, 0, 0>>
CI == <<0, 0, 1, 0>>
COmega == <<0, 1, 0, 0>>

CAdd(x, y) == <<x[1] + y[1], x[2] + y[2], x[3] + y[3], x[4] + y[4]>>

CNeg(x) == <<0 - x[1], 0 - x[2], 0 - x[3], 0 - x[4]>>

CInt(n) == <<n, 0, 0, 0>>

CMul(x, y) ==
    IF x = CZero \/ y = CZero THEN CZero
    ELSE IF x = COne THEN y
    ELSE IF y = COne THEN x
    ELSE << x[1]*y[1] - x[2]*y[4] - x[3]*y[3] - x[4]*y[2],
            x[1]*y[2] + x[2]*y[1] - x[3]*y[4] - x[4]*y[3],
            x[1]*y[3] + x[2]*y[2] + x[3]*y[1] - x[4]*y[4],
            x[1]*y[4] + x[2]*y[3] + x[3]*y[2] + x[4]*y[1] >>

RECURSIVE CPowOmega(_)
CPowOmega(t) == IF t % 8 = 0 THEN COne ELSE CMul(COmega, CPowOmega((t % 8) - 1))

\* x * sqrt(2), with sqrt(2) = w - w^3
CTimesSqrt2(x) == <<x[2] - x[4], x[1] + x[3], x[2] + x[4], x[3] - x[1]>>

CDivisibleBySqrt2(x) == (x[1] - x[3]) % 2 = 0 /\ (x[2] - x[4]) % 2 = 0

CDivSqrt2(x) ==
    LET y == CTimesSqrt2(x)
    IN  <<y[1] \div 2, y[2] \div 2, y[3] \div 2, y[4] \div 2>>

\* |x|^2 = p + q*sqrt(2), returned as <<p, q>>
CAbs2(x) ==
    << x[1]*x[1] + x[2]*x[2] + x[3]*x[3] + x[4]*x[4],
       x[1]*x[2] + x[2]*x[3] + x[3]*x[4] - x[4]*x[1] >>

(* ------------------------------- arrays -------------------------------- *)
\* a raised exception
Raise == [err |-> TRUE, k |-> 0, d |-> 0, a |-> <<>>]

RECURSIVE Lowest(_)
Lowest(x) ==
    IF x.k > 0 /\ \A i \in DOMAIN x.a : CDivisibleBySqrt2(x.a[i])
    THEN Lowest([x EXCEPT !.k = x.k - 1,
                          !.a = [i \in DOMAIN x.a |-> CDivSqrt2(x.a[i])]])
    ELSE x

RECURSIVE ScaleUp(_, _)
ScaleUp(f, j) ==
    IF j <= 0 THEN f ELSE ScaleUp([i \in DOMAIN f |-> CTimesSqrt2(f[i])], j - 1)

Vec(k, d, f) == Lowest([err |-> FALSE, k |-> k, d |-> d, a |-> f])

Mat(k, d, f) == Lowest([err |-> FALSE, k |-> k, d |-> d, a |-> f])

\* np.eye(d, dtype=complex)
eye(d) == Mat(0, d, [i \in 0..(d-1), j \in 0..(d-1) |-> IF i = j THEN COne ELSE CZero])

\* 2x2 array [[a, b], [c, e]] / sqrt(2)^k
Mat2(k, a, b, c, e) ==
    Mat(k, 2, [i \in 0..1, j \in 0..1 |->
                 IF i = 0 THEN (IF j = 0 THEN a ELSE b) ELSE (IF j = 0 THEN c ELSE e)])

\* np.kron(A, B)
kron(A, B) ==
    Mat(A.k + B.k, A.d * B.d,
        [i \in 0..(A.d * B.d - 1), j \in 0..(A.d * B.d - 1) |->
            CMul(A.a[i \div B.d, j \div B.d], B.a[i % B.d, j % B.d])])

\* sum over lo <= j <= hi of M[i, j] * v[j], summed by halves
RECURSIVE RowDotRange(_, _, _, _, _)
RowDotRange(M, v, i, lo, hi) ==
    IF hi < lo THEN CZero
    ELSE IF hi = lo THEN CMul(M.a[i, lo], v.a[lo])
    ELSE LET mid == (lo + hi) \div 2
         IN  CAdd(RowDotRange(M, v, i, lo, mid), RowDotRange(M, v, i, mid + 1, hi))

\* sum over j <= hi of M[i, j] * v[j]
RowDot(M, v, i, hi) == RowDotRange(M, v, i, 0, hi)

\* operator @ state_vector; shapes that do not agree raise ValueError
matmul(M, v) ==
    IF M.err \/ v.err \/ M.d # v.d THEN Raise
    ELSE Vec(M.k + v.k, v.d, [i \in 0..(v.d - 1) |-> RowDot(M, v, i, v.d - 1)])

\* A + B with numpy broadcasting of a 1x1 operand; other shape mismatches raise
matadd(A, B) ==
    IF A.err \/ B.err THEN Raise
    ELSE IF A.d # B.d /\ A.d # 1 /\ B.d # 1 THEN Raise
    ELSE LET d  == IF A.d >= B.d THEN A.d ELSE B.d
             k  == IF A.k >= B.k THEN A.k ELSE B.k
             fa == ScaleUp(A.a, k - A.k)
             fb == ScaleUp(B.a, k - B.k)
             ea(i, j) == IF A.d = 1 THEN fa[0, 0] ELSE fa[i, j]
             eb(i, j) == IF B.d = 1 THEN fb[0, 0] ELSE fb[i, j]
         IN  Mat(k, d, [i \in 0..(d-1), j \in 0..(d-1) |-> CAdd(ea(i, j), eb(i, j))])

\* the basis vector |b> of a register of n qubits
Basis(n, b) == Vec(0, Pow2(n), [i \in 0..(Pow2(n) - 1) |-> IF i = b THEN COne ELSE CZero])

\* np.abs(state) ** 2 summed, as <<p, q>> standing for (p + q*sqrt(2)) / 2^k
RECURSIVE ProbSum(_, _)
ProbSum(v, hi) ==
    IF hi < 0 THEN <<0, 0>>
    ELSE LET r == ProbSum(v, hi - 1)
             t == CAbs2(v.a[hi])
         IN  <<r[1] + t[1], r[2] + t[2]>>

\* np.isclose(np.sum(probabilities), 1.0)
Normalized(v) ==
    LET s == ProbSum(v, v.d - 1) IN s[1] = Pow2(v.k) /\ s[2] = 0

\* indices of non-zero probability
Support(v) == {i \in 0..(v.d - 1) : v.a[i] # CZero}

(* ------------------------------ strings -------------------------------- *)
\* bin(i)[2:] as a sequence of characters, most significant bit first
RECURSIVE bin(_)
bin(i) == IF i < 2 THEN <<IF i = 1 THEN "1" ELSE "0">>
          ELSE Append(bin(i \div 2), IF i % 2 = 1 THEN "1" ELSE "0")

\* str.zfill(width)
RECURSIVE zfill(_, _)
zfill(s, width) == IF Len(s) >= width THEN s ELSE zfill(<<"0">> \o s, width)

\* format(i, f'0{n}b')
format_b(i, n) == zfill(bin(i), n)

\* int(s, 2) for a string of '0' and '1'
RECURSIVE int_base2(_)
int_base2(s) ==
    IF Len(s) = 0 THEN 0
    ELSE 2 * int_base2(SubSeq(s, 1, Len(s) - 1)) + (IF s[Len(s)] = "1" THEN 1 ELSE 0)

\* Python s[idx], idx possibly negative; "IndexError" when out of range
PyIndex(s, idx) ==
    IF idx >= 0 /\ idx < Len(s) THEN s[idx + 1]
    ELSE IF idx < 0 /\ idx + Len(s) >= 0 THEN s[idx + Len(s) + 1]
    ELSE "IndexError"

(* ------------------------------- gates --------------------------------- *)
\* A gate object: name, qubits (a Python list; qubits[0] is qubits[1] here)
\* and theta, the angle of a parametric gate in units of pi/2.
Gate(name, qubits, theta) == [name |-> name, qubits |-> qubits, theta |-> theta]

SingleNames == {"X", "Y", "H", "S", "T", "Ph", "Rx", "Ry", "Rz"}

\* cos(t*pi/4) and sin(t*pi/4), times sqrt(2) when t is odd
CosQ(t) == CASE t % 8 \in {0, 1, 7} -> 1 [] t % 8 \in {2, 6} -> 0 [] OTHER -> 0 - 1

SinQ(t) == CASE t % 8 \in {1, 2, 3} -> 1 [] t % 8 \in {0, 4} -> 0 [] OTHER -> 0 - 1

X_matrix == Mat2(0, CZero, COne, COne, CZero)

Y_matrix == Mat2(0, CZero, CNeg(CI), CI, CZero)

\* the Hadamard matrix without its 1/sqrt(2)
Hadamard_matrix_unscaled == Mat2(0, COne, COne, COne, CNeg(COne))

Hadamard_matrix == Mat2(1, COne, COne, COne, CNeg(COne))

S_matrix == Mat2(0, COne, CZero, CZero, CI)

T_matrix == Mat2(0, COne, CZero, CZero, COmega)

Identity_matrix == Mat2(0, COne, CZero, CZero, COne)

\* delta = theta * pi/2
Ph_matrix(theta) == Mat2(0, COne, CZero, CZero, CPowOmega(2 * theta))

\* theta/2 = theta * pi/4
Rx_matrix(theta) ==
    Mat2(theta % 2, CInt(CosQ(theta)), CMul(CNeg(CI), CInt(SinQ(theta))),
                    CMul(CNeg(CI), CInt(SinQ(theta))), CInt(CosQ(theta)))

Ry_matrix(theta) ==
    Mat2(theta % 2, CInt(CosQ(theta)), CInt(0 - SinQ(theta)),
                    CInt(SinQ(theta)), CInt(CosQ(theta)))

Rz_matrix(theta) ==
    Mat2(0, CPowOmega(8 - (theta % 8)), CZero, CZero, CPowOmega(theta))

\* self.matrix as set by the constructors
matrix(g) ==
    CASE g.name = "X" -> X_matrix
      [] g.name = "Y" -> Y_matrix
      [] g.name = "H" -> Hadamard_matrix
      [] g.name = "S" -> S_matrix
      [] g.name = "T" -> T_matrix
      [] g.name = "I" -> Identity_matrix
      [] g.name = "Ph" -> Ph_matrix(g.theta)
      [] g.name = "Rx" -> Rx_matrix(g.theta)
      [] g.name = "Ry" -> Ry_matrix(g.theta)
      [] g.name = "Rz" -> Rz_matrix(g.theta)
      [] OTHER -> Raise

\* the constructors: TRUE when __init__ raises
InitRaises(g) ==
    CASE g.name = "CNOT" -> Len(g.qubits) # 2 \/ g.qubits[1] = g.qubits[2]
      [] g.name = "CZ" -> Len(g.qubits) # 2
      [] g.name = "Y" -> Len(g.qubits) # 1
      [] OTHER -> FALSE

\* for i in range(num_qubits): if i == target: continue
\*     operator = np.kron(identity, operator)
RECURSIVE kron_identity_loop(_, _, _, _)
kron_identity_loop(operator, target_qubit, i, n) ==
    IF i >= n THEN operator
    ELSE kron_identity_loop(IF i = target_qubit THEN operator ELSE kron(eye(2), operator),
                            target_qubit, i + 1, n)

\* the apply() that X, Y, Hadamard, S, T, Ph, Rx, Ry and Rz each carry
SingleQubit_apply(m, qubits, state_vector) ==
    IF Len(qubits) # 1 THEN Raise
    ELSE LET target_qubit == qubits[1]
             n == Log2(state_vector.d)
         IN  IF target_qubit >= n THEN Raise
             ELSE matmul(kron_identity_loop(m, target_qubit, 0, n), state_vector)

X_apply(g, state_vector) == SingleQubit_apply(X_matrix, g.qubits, state_vector)

Y_apply(g, state_vector) == SingleQubit_apply(Y_matrix, g.qubits, state_vector)

\* the phase gate in Hadamard's place
Hadamard_apply_phase(g, state_vector) == SingleQubit_apply(S_matrix, g.qubits, state_vector)

Hadamard_apply(g, state_vector) == SingleQubit_apply(Hadamard_matrix, g.qubits, state_vector)

S_apply(g, state_vector) == SingleQubit_apply(S_matrix, g.qubits, state_vector)

T_apply(g, state_vector) == SingleQubit_apply(T_matrix, g.qubits, state_vector)

Ph_apply(g, state_vector) == SingleQubit_apply(Ph_matrix(g.theta), g.qubits, state_vector)

Rx_apply(g, state_vector) == SingleQubit_apply(Rx_matrix(g.theta), g.qubits, state_vector)

Ry_apply(g, state_vector) == SingleQubit_apply(Ry_matrix(g.theta), g.qubits, state_vector)

Rz_apply(g, state_vector) == SingleQubit_apply(Rz_matrix(g.theta), g.qubits, state_vector)

\* an apply that hands back the gate's own matrix
Identity_apply_returns_matrix(g, state_vector) == Identity_matrix

Identity_apply(g, state_vector) == state_vector

\* the gate's own 2x2 matrix, not widened to the register
Gate_get_operator_bare(g, n) == matrix(g)

\* Gate.get_operator, inherited by every gate but CZ
Gate_get_operator(g, n) ==
    IF matrix(g).err THEN Raise
    ELSE IF n > 0 /\ Len(g.qubits) = 0 THEN Raise
    ELSE kron_identity_loop(matrix(g), IF n > 0 THEN g.qubits[1] ELSE 0, 0, n)

P0 == Mat2(0, COne, CZero, CZero, CZero)

P1 == Mat2(0, CZero, CZero, CZero, COne)

\* first loop of _construct_cnot_operator
RECURSIVE cnot_first_term(_, _, _, _, _)
cnot_first_term(operator, control, target, i, n) ==
    IF i >= n THEN operator
    ELSE cnot_first_term(
            IF i = control THEN kron(operator, P0)
            ELSE IF i = target
                 THEN (IF control < target THEN kron(operator, eye(2))
                                           ELSE kron(eye(2), operator))
                 ELSE operator,
            control, target, i + 1, n)

\* inner loop of _construct_cnot_operator
RECURSIVE cnot_second_term(_, _, _, _, _)
cnot_second_term(second_term, control, target, i, n) ==
    IF i >= n THEN second_term
    ELSE cnot_second_term(
            IF i = control THEN kron(second_term, P1)
            ELSE IF i = target THEN kron(second_term, X_matrix)
            ELSE kron(second_term, eye(2)),
            control, target, i + 1, n)

\* control and target exchanged
CNOT_construct_cnot_operator_exchanged(control, target, n) ==
    IF n <= 0 THEN Raise
    ELSE matadd(cnot_first_term(eye(1), target, control, 0, n),
                cnot_second_term(eye(1), target, control, 0, n))

\* the outer loop returns in its first pass; with no pass the result is None
CNOT_construct_cnot_operator(control, target, n) ==
    IF n <= 0 THEN Raise
    ELSE matadd(cnot_first_term(eye(1), control, target, 0, n),
                cnot_second_term(eye(1), control, target, 0, n))

CNOT_apply(g, state_vector) ==
    IF Len(g.qubits) # 2 THEN Raise
    ELSE LET control == g.qubits[1]
             target  == g.qubits[2]
             n == Log2(state_vector.d)
         IN  IF control >= n \/ target >= n THEN Raise
             ELSE IF control = target THEN Raise
             ELSE matmul(CNOT_construct_cnot_operator(control, target, n), state_vector)

\* the phase flip keyed on the control bit alone
CZ_get_operator_control_only(g, n) ==
    IF Len(g.qubits) # 2 THEN Raise
    ELSE LET control == g.qubits[1]
             target  == g.qubits[2]
             dim == Pow2(n)
         IN  IF control >= n \/ target >= n \/ control = target THEN Raise
             ELSE Mat(0, dim, [i \in 0..(dim-1), j \in 0..(dim-1) |->
                                 IF i # j THEN CZero
                                 ELSE IF PyIndex(format_b(i, n), control) = "1"
                                      THEN CNeg(COne) ELSE COne])

CZ_get_operator(g, n) ==
    IF Len(g.qubits) # 2 THEN Raise
    ELSE LET control == g.qubits[1]
             target  == g.qubits[2]
             dim == Pow2(n)
             flip(i) == PyIndex(format_b(i, n), control) = "1"
                        /\ PyIndex(format_b(i, n), target) = "1"
             oob(i) == PyIndex(format_b(i, n), control) = "IndexError"
                       \/ (PyIndex(format_b(i, n), control) = "1"
                           /\ PyIndex(format_b(i, n), target) = "IndexError")
         IN  IF control >= n \/ target >= n THEN Raise
             ELSE IF control = target THEN Raise
             ELSE IF \E i \in 0..(dim - 1) : oob(i) THEN Raise
             ELSE Mat(0, dim, [i \in 0..(dim-1), j \in 0..(dim-1) |->
                                 IF i # j THEN CZero
                                 ELSE IF flip(i) THEN CNeg(COne) ELSE COne])

CZ_apply(g, state_vector) ==
    IF Len(g.qubits) # 2 THEN Raise
    ELSE LET control == g.qubits[1]
             target  == g.qubits[2]
             n == Log2(state_vector.d)
         IN  IF control >= n \/ target >= n THEN Raise
             ELSE IF control = target THEN Raise
             ELSE matmul(CZ_get_operator(g, n), state_vector)

\* gate.apply(state): dispatch on the gate's class
apply(g, state_vector) ==
    CASE g.name = "X" -> X_apply(g, state_vector)
      [] g.name = "Y" -> Y_apply(g, state_vector)
      [] g.name = "H" -> Hadamard_apply(g, state_vector)
      [] g.name = "S" -> S_apply(g, state_vector)
      [] g.name = "T" -> T_apply(g, state_vector)
      [] g.name = "I" -> Identity_apply(g, state_vector)
      [] g.name = "Ph" -> Ph_apply(g, state_vector)
      [] g.name = "Rx" -> Rx_apply(g, state_vector)
      [] g.name = "Ry" -> Ry_apply(g, state_vector)
      [] g.name = "Rz" -> Rz_apply(g, state_vector)
      [] g.name = "CNOT" -> CNOT_apply(g, state_vector)
      [] g.name = "CZ" -> CZ_apply(g, state_vector)
      [] OTHER -> Raise

\* gate.get_operator(num_qubits): CZ overrides, the others inherit
get_operator(g, n) ==
    IF g.name = "CZ" THEN CZ_get_operator(g, n) ELSE Gate_get_operator(g, n)

(* --------------------------- QuantumCircuit ---------------------------- *)
Returned(op, value) == [op |-> op, err |-> FALSE, value |-> value]

Raised(op) == [op |-> op, err |-> TRUE, value |-> 0]

NoCall == [fn |-> "none", gate |-> Gate("I", <<>>, 0), n |-> 0, b |-> 0, out |-> Raise]

\* no sampler has been called
NoSampler == [fn |-> "none"]

\* QuantumCircuit.__init__
QuantumCircuit_init(n) ==
    /\ num_qubits = n
    /\ gates = <<>>
    /\ state = Basis(n, 0)
    /\ applied = 0
    /\ ret = Returned("__init__", 0)
    /\ call = NoCall
    /\ sampler = NoSampler
    /\ draws = <<>>
    /\ measurement_results = <<>>

\* the gates a caller hands to add_gate on a circuit of n qubits: H, X, CNOT
\* and CZ on the first qubits, and gates whose qubit index is -1 or n, or
\* whose control is its target
CircuitGates(n) ==
    {Gate("H", <<0>>, 0), Gate("X", <<0>>, 0),
     Gate("CNOT", <<0, 1>>, 0), Gate("CZ", <<0, 1>>, 0),
     Gate("I", <<n>>, 0), Gate("X", <<n>>, 0),
     Gate("CZ", <<0 - 1, 0>>, 0), Gate("CNOT", <<0 - 1, 0>>, 0),
     Gate("CNOT", <<0, 0>>, 0)}

\* qc.add_gate(G(...)): the constructor may raise; gate.qubits is never None,
\* so the shape test is skipped and the gate is appended
add_gate(g) ==
    /\ Len(gates) < MaxGates
    /\ IF InitRaises(g)
       THEN /\ ret' = Raised("add_gate")
            /\ UNCHANGED gates
       ELSE /\ gates' = Append(gates, g)
            /\ ret' = Returned("add_gate", 0)
    /\ UNCHANGED <<num_qubits, state, applied, call, samplerVars>>

\* the gate list walked from its end
RECURSIVE apply_loop_reversed(_, _)
apply_loop_reversed(gs, st) ==
    IF gs = <<>> THEN [state |-> st, err |-> FALSE]
    ELSE LET r == apply(gs[Len(gs)], st)
         IN  IF r.err THEN [state |-> st, err |-> TRUE]
             ELSE apply_loop_reversed(SubSeq(gs, 1, Len(gs) - 1), r)

\* a loop over a copy of the state: what the gates before a failing one did
\* is dropped
RECURSIVE apply_loop_on_copy(_, _)
apply_loop_on_copy(gs, st) ==
    IF gs = <<>> THEN [state |-> st, err |-> FALSE]
    ELSE LET r == apply(Head(gs), st)
         IN  IF r.err THEN [state |-> st, err |-> TRUE]
             ELSE LET rest == apply_loop_on_copy(Tail(gs), r)
                  IN  IF rest.err THEN [state |-> st, err |-> TRUE] ELSE rest

\* for gate in self.gates: self.state = gate.apply(self.state)
RECURSIVE apply_loop(_, _)
apply_loop(gs, st) ==
    IF gs = <<>> THEN [state |-> st, err |-> FALSE]
    ELSE LET r == apply(Head(gs), st)
         IN  IF r.err THEN [state |-> st, err |-> TRUE]
             ELSE apply_loop(Tail(gs), r)

\* an apply() that starts over from |0...0>
QuantumCircuit_apply_from_zero ==
    /\ applied < MaxApplies
    /\ LET r == apply_loop(gates, Basis(num_qubits, 0))
       IN  /\ state' = r.state
           /\ ret' = IF r.err THEN Raised("apply") ELSE Returned("apply", 0)
    /\ applied' = applied + 1
    /\ UNCHANGED <<num_qubits, gates, call, samplerVars>>

QuantumCircuit_apply ==
    /\ applied < MaxApplies
    /\ LET r == apply_loop(gates, state)
       IN  /\ state' = r.state
           /\ ret' = IF r.err THEN Raised("apply") ELSE Returned("apply", 0)
    /\ applied' = applied + 1
    /\ UNCHANGED <<num_qubits, gates, call, samplerVars>>

\* a reset that forgets the gate list
reset_keeps_gates ==
    /\ state' = Basis(num_qubits, 0)
    /\ applied' = 0
    /\ ret' = Returned("reset", 0)
    /\ UNCHANGED <<num_qubits, gates, call, samplerVars>>

reset ==
    /\ gates' = <<>>
    /\ state' = Basis(num_qubits, 0)
    /\ applied' = 0
    /\ ret' = Returned("reset", 0)
    /\ UNCHANGED <<num_qubits, call, samplerVars>>

\* a draw that ignores the probabilities
measure_state_uniform ==
    /\ \E measured_basis_state \in 0..(state.d - 1) :
          /\ state' = Vec(0, state.d, [i \in 0..(state.d - 1) |->
                              IF i = measured_basis_state THEN COne ELSE CZero])
          /\ ret' = Returned("measure_state", measured_basis_state)
    /\ UNCHANGED <<num_qubits, gates, applied, call, samplerVars>>

\* np.random.choice(len(p), p=p) raises unless p sums to 1, and never draws
\* an index of probability 0
measure_state ==
    /\ IF ~Normalized(state)
       THEN /\ ret' = Raised("measure_state")
            /\ UNCHANGED state
       ELSE \E measured_basis_state \in Support(state) :
               /\ state' = Vec(0, state.d, [i \in 0..(state.d - 1) |->
                                   IF i = measured_basis_state THEN COne ELSE CZero])
               /\ ret' = Returned("measure_state", measured_basis_state)
    /\ UNCHANGED <<num_qubits, gates, applied, call, samplerVars>>

\* the key without its zero padding
format_key_unpadded(i, n) == <<"|">> \o bin(i) \o <<">">>

\* f"|{bin(state)[2:].zfill(circuit.num_qubits)}>"
format_key(i, n) == <<"|">> \o zfill(bin(i), n) \o <<">">>

\* every outcome that was seen tallied once
formatted_counts_presence(tallied, n) ==
    LET seen == {tallied[s] : s \in DOMAIN tallied}
    IN  [key \in {format_key(i, n) : i \in seen} |-> 1]

\* Counter(measurement_results), then the formatted dict
formatted_counts(tallied, n) ==
    LET seen == {tallied[s] : s \in DOMAIN tallied}
        count(i) == Cardinality({s \in DOMAIN tallied :
                                    tallied[s] = i})
    IN  [key \in {format_key(i, n) : i \in seen} |->
            count(CHOOSE i \in seen : format_key(i, n) = key)]

\* a sampler that measures the circuit's own state, shot after shot
run_simulation_collapsing(num_simulations) ==
    /\ applied < MaxApplies
    /\ applied' = applied + 1
    /\ sampler' = [fn |-> "run_simulation", num_simulations |-> num_simulations]
    /\ draws' = <<>>
    /\ LET r == apply_loop(gates, state)
       IN  IF r.err \/ ~Normalized(r.state)
           THEN /\ state' = r.state
                /\ ret' = Raised("run_simulation")
                /\ measurement_results' = <<>>
           ELSE \E measured_basis_state \in Support(r.state) :
                   /\ state' = Vec(0, r.state.d, [i \in 0..(r.state.d - 1) |->
                                       IF i = measured_basis_state THEN COne ELSE CZero])
                   /\ measurement_results' = [s \in 1..num_simulations |-> measured_basis_state]
                   /\ ret' = Returned("run_simulation",
                                      formatted_counts(measurement_results', num_qubits))
    /\ UNCHANGED <<num_qubits, gates, call>>

run_simulation(num_simulations) ==
    /\ applied < MaxApplies
    /\ applied' = applied + 1
    /\ sampler' = [fn |-> "run_simulation", num_simulations |-> num_simulations]
    /\ draws' = <<>>
    /\ LET r == apply_loop(gates, state)
       IN  /\ state' = r.state
           /\ IF r.err \/ ~Normalized(r.state)
              THEN /\ ret' = Raised("run_simulation")
                   /\ measurement_results' = <<>>
              ELSE /\ measurement_results' \in [1..num_simulations -> Support(state')]
                   /\ ret' = Returned("run_simulation",
                                      formatted_counts(measurement_results', num_qubits))
    /\ UNCHANGED <<num_qubits, gates, call>>

(* ------------------------- run_noisy_simulation ------------------------ *)
\* Probabilities are counted in thousandths: 8 stands for 0.008, 1000 for 1.0.
\* IBM_PROFILES, in the order the dict is walked
IBM_PROFILES ==
    << [name |-> "ibm_kyiv", gate_error |-> 8, meas_error |-> 10,
        single_qubit_error |-> 1, cnot_error |-> 10,
        t1_decay_prob |-> 30, thermal_prob |-> 2],
       [name |-> "ibm_brisbane", gate_error |-> 12, meas_error |-> 20,
        single_qubit_error |-> 2, cnot_error |-> 20,
        t1_decay_prob |-> 40, thermal_prob |-> 5] >>

\* a lookup keyed on meas_error
resolve_profile_by_meas_error(gate_error_prob) ==
    LET matches == {i \in DOMAIN IBM_PROFILES :
                       gate_error_prob = IBM_PROFILES[i].meas_error}
    IN  IF matches = {}
        THEN [profile |-> "None",
              single_qubit_error |-> gate_error_prob,
              cnot_error |-> gate_error_prob,
              t1_decay_prob |-> 0,
              thermal_prob |-> 0]
        ELSE LET params == IBM_PROFILES[CHOOSE i \in matches : \A j \in matches : i <= j]
             IN  [profile |-> params.name,
                  single_qubit_error |-> params.single_qubit_error,
                  cnot_error |-> params.cnot_error,
                  t1_decay_prob |-> params.t1_decay_prob,
                  thermal_prob |-> params.thermal_prob]

\* the profile loop and the four defaults that follow it; profile "None" is
\* Python's None
resolve_profile(gate_error_prob) ==
    LET matches == {i \in DOMAIN IBM_PROFILES :
                       gate_error_prob = IBM_PROFILES[i].gate_error}
    IN  IF matches = {}
        THEN [profile |-> "None",
              single_qubit_error |-> gate_error_prob,
              cnot_error |-> gate_error_prob,
              t1_decay_prob |-> 0,
              thermal_prob |-> 0]
        ELSE LET params == IBM_PROFILES[CHOOSE i \in matches : \A j \in matches : i <= j]
             IN  [profile |-> params.name,
                  single_qubit_error |-> params.single_qubit_error,
                  cnot_error |-> params.cnot_error,
                  t1_decay_prob |-> params.t1_decay_prob,
                  thermal_prob |-> params.thermal_prob]

\* the outcomes of random.random() < p, random.random() being in [0, 1)
Bernoulli(p) == {hit \in BOOLEAN : (hit => p > 0) /\ (~hit => p < 1000)}

\* hasattr(gate, 'control_qubit') or type(gate).__name__.upper() in ['CNOT', 'CZ']
IsTwoQubitGate(g) == g.name \in {"CNOT", "CZ"}

\* the outcomes of the random.random() < error tests of the gate loop
NoisePatterns(gs, single_qubit_error, cnot_error) ==
    {z \in [DOMAIN gs -> BOOLEAN] :
        \A i \in DOMAIN gs :
            z[i] \in Bernoulli(IF IsTwoQubitGate(gs[i]) THEN cnot_error
                               ELSE single_qubit_error)}

\* the gate loop of run_noisy_simulation from gate i on.  acc.state is the
\* local state without the Gaussian terms, acc.perturbed tells that Gaussian
\* noise was added to it, acc.noise lists the random tests made so far.
RECURSIVE gate_error_loop(_, _, _, _, _)
gate_error_loop(gs, z, i, n, acc) ==
    IF i > Len(gs) THEN acc
    ELSE IF IsTwoQubitGate(gs[i])
         THEN LET r == apply(gs[i], acc.state)
              IN  IF r.err THEN [acc EXCEPT !.err = TRUE]
                  ELSE gate_error_loop(gs, z, i + 1, n,
                          [state |-> r, err |-> FALSE,
                           perturbed |-> acc.perturbed \/ z[i],
                           noise |-> Append(acc.noise, z[i])])
         ELSE LET r == matmul(get_operator(gs[i], n), acc.state)
              IN  IF r.err THEN [acc EXCEPT !.err = TRUE,
                                            !.noise = Append(acc.noise, z[i])]
                  ELSE gate_error_loop(gs, z, i + 1, n,
                          [state |-> r, err |-> FALSE,
                           perturbed |-> acc.perturbed \/ z[i],
                           noise |-> Append(acc.noise, z[i])])

\* np.sum(probabilities) against 1.0.  "one": equal to 1; "other": not close
\* to 1 (np.isclose fails); "zero": 0; "near_one": close to 1 for np.isclose
\* (1e-5) but not for np.random.choice (1.5e-8), which Gaussian noise can give.
Totals(acc) ==
    IF acc.err THEN {"none"}
    ELSE IF acc.perturbed THEN {"other", "near_one"}
    ELSE IF Normalized(acc.state) THEN {"one"}
    ELSE IF Support(acc.state) = {} THEN {"zero"}
    ELSE {"other"}

\* the indices np.random.choice can return: those of non-zero probability;
\* Gaussian noise on every amplitude leaves none at zero
TrueStates(run) ==
    IF run.perturbed THEN 0..(run.state.d - 1) ELSE Support(run.state)

\* a bit loop without thermal excitation
RECURSIVE t1_thermal_loop_decay_only(_, _, _)
t1_thermal_loop_decay_only(true_state_binary, rand, j) ==
    IF j > Len(true_state_binary) THEN <<>>
    ELSE (IF true_state_binary[j] = "1"
          THEN <<IF rand[j] THEN "0" ELSE "1">>
          ELSE <<"0">>)
         \o t1_thermal_loop_decay_only(true_state_binary, rand, j + 1)

\* the bit loop over true_state_binary, from character j on
RECURSIVE t1_thermal_loop(_, _, _)
t1_thermal_loop(true_state_binary, rand, j) ==
    IF j > Len(true_state_binary) THEN <<>>
    ELSE (IF true_state_binary[j] = "1"
          THEN <<IF rand[j] THEN "0" ELSE "1">>
          ELSE IF true_state_binary[j] = "0"
               THEN <<IF rand[j] THEN "1" ELSE "0">>
               ELSE <<>>)
         \o t1_thermal_loop(true_state_binary, rand, j + 1)

\* one pass of the shot loop with a profile
ProfileShots(run, n) ==
    {[true_state |-> true_state, rand |-> rand, randint |-> 0 - 1,
      noisy_state |-> int_base2(t1_thermal_loop(zfill(bin(true_state), n), rand, 1))] :
        true_state \in TrueStates(run), rand \in [1..n -> BOOLEAN]}

\* a shot loop whose random test is turned round
BasicShots_inverted(run) ==
    {[true_state |-> true_state, rand |-> <<FALSE>>, randint |-> 0 - 1,
      noisy_state |-> true_state] :
        true_state \in {t \in TrueStates(run) : run.measurement_error_prob > 0}}
    \cup
    {[true_state |-> true_state, rand |-> <<TRUE>>, randint |-> randint,
      noisy_state |-> randint] :
        true_state \in {t \in TrueStates(run) : run.measurement_error_prob < 1000},
        randint \in 0..(run.state.d - 1)}

\* one pass of the shot loop without a profile
BasicShots(run) ==
    {[true_state |-> true_state, rand |-> <<FALSE>>, randint |-> 0 - 1,
      noisy_state |-> true_state] :
        true_state \in {t \in TrueStates(run) : run.measurement_error_prob < 1000}}
    \cup
    {[true_state |-> true_state, rand |-> <<TRUE>>, randint |-> randint,
      noisy_state |-> randint] :
        true_state \in {t \in TrueStates(run) : run.measurement_error_prob > 0},
        randint \in 0..(run.state.d - 1)}

\* what one pass of the shot loop can do
ShotOutcomes(run, n) ==
    IF run.profile # "None"
    THEN {shot \in ProfileShots(run, n) :
             \A j \in 1..n :
                 shot.rand[j] \in Bernoulli(IF zfill(bin(shot.true_state), n)[j] = "1"
                                            THEN run.t1_decay_prob
                                            ELSE run.thermal_prob)}
    ELSE BasicShots(run)

run_noisy_simulation(num_simulations, gate_error_prob, measurement_error_prob) ==
    /\ LET resolved == resolve_profile(gate_error_prob)
       IN  \E z \in NoisePatterns(gates, resolved.single_qubit_error, resolved.cnot_error) :
              LET acc == gate_error_loop(gates, z, 1, num_qubits,
                            [state |-> state, err |-> FALSE,
                             perturbed |-> FALSE, noise |-> <<>>])
              IN  \E total_probability \in Totals(acc) :
                     sampler' = [fn |-> "run_noisy_simulation",
                                 num_simulations |-> num_simulations,
                                 gate_error_prob |-> gate_error_prob,
                                 measurement_error_prob |-> measurement_error_prob,
                                 profile |-> resolved.profile,
                                 single_qubit_error |-> resolved.single_qubit_error,
                                 cnot_error |-> resolved.cnot_error,
                                 t1_decay_prob |-> resolved.t1_decay_prob,
                                 thermal_prob |-> resolved.thermal_prob,
                                 noise |-> acc.noise,
                                 state |-> acc.state,
                                 err |-> acc.err,
                                 perturbed |-> acc.perturbed,
                                 total_probability |-> total_probability]
    /\ IF sampler'.err \/ sampler'.total_probability \in {"near_one", "zero"}
       THEN /\ draws' = <<>>
            /\ measurement_results' = <<>>
            /\ ret' = Raised("run_noisy_simulation")
       ELSE /\ draws' \in [1..num_simulations -> ShotOutcomes(sampler', num_qubits)]
            /\ measurement_results' = [s \in 1..num_simulations |-> draws'[s].noisy_state]
            /\ ret' = Returned("run_noisy_simulation",
                               formatted_counts(measurement_results', num_qubits))
    /\ UNCHANGED <<num_qubits, gates, state, applied, call>>

Init == \E n \in 1..MaxQubits : QuantumCircuit_init(n)

\* a caller using the circuit's own methods
Next ==
    \/ \E g \in CircuitGates(num_qubits) : add_gate(g)
    \/ QuantumCircuit_apply
    \/ reset
    \/ measure_state

Spec == Init /\ [][Next]_vars

\* a caller that builds a circuit and hands it to the sampler
NextRun ==
    \/ \E g \in CircuitGates(num_qubits) : add_gate(g)
    \/ \E num_simulations \in 1..MaxShots : run_simulation(num_simulations)

SpecRun == Init /\ [][NextRun]_vars

\* the circuits handed to either sampler: the empty one, H, the Bell pair,
\* X followed by CZ, a CNOT whose control is -1, and X, H followed by that CNOT
SamplerCircuits ==
    {<<>>,
     <<Gate("H", <<0>>, 0)>>,
     <<Gate("X", <<0>>, 0), Gate("CZ", <<0, 1>>, 0)>>,
     <<Gate("H", <<0>>, 0), Gate("CNOT", <<0, 1>>, 0)>>,
     <<Gate("CNOT", <<0 - 1, 0>>, 0)>>,
     <<Gate("X", <<0>>, 0), Gate("H", <<0>>, 0), Gate("CNOT", <<0 - 1, 0>>, 0)>>}

\* the (gate_error_prob, measurement_error_prob) pairs of the noisy calls
NoisyParams ==
    {<<8, 20>>, <<8, 1000>>, <<12, 0>>, <<0, 0>>, <<0, 1000>>, <<10, 20>>, <<1000, 20>>}

\* QuantumCircuit(n) followed by one add_gate per gate of gs
InitSampler ==
    \E n \in 1..MaxQubits : \E gs \in SamplerCircuits :
        /\ num_qubits = n
        /\ gates = gs
        /\ state = Basis(n, 0)
        /\ applied = 0
        /\ ret = Returned(IF gs = <<>> THEN "__init__" ELSE "add_gate", 0)
        /\ call = NoCall
        /\ sampler = NoSampler
        /\ draws = <<>>
        /\ measurement_results = <<>>

\* the caller has not handed the circuit to a sampler yet
NotSampled == sampler.fn = "none"

\* a caller that hands a circuit once to one of the two samplers
NextNoisy ==
    \/ \E num_simulations \in 1..MaxShots : NotSampled /\ run_simulation(num_simulations)
    \/ \E num_simulations \in 1..MaxNoisyShots : \E p \in NoisyParams :
          NotSampled /\ run_noisy_simulation(num_simulations, p[1], p[2])

SpecNoisy == InitSampler /\ [][NextNoisy]_vars

\* the (gate_error_prob, measurement_error_prob) pairs of a caller that
\* compares an ideal run with a noisy one: no noise at all, and the
\* ibm_brisbane pair of quality_benchmark
RepeatParams == {<<0, 0>>, <<12, 20>>}

\* a caller that keeps using one circuit without reset: apply(),
\* run_simulation and, after either or at once, run_noisy_simulation
NextRepeat ==
    \/ QuantumCircuit_apply
    \/ run_simulation(1)
    \/ \E p \in RepeatParams :
          sampler.fn # "run_noisy_simulation" /\ run_noisy_simulation(1, p[1], p[2])

SpecRepeat == InitSampler /\ [][NextRepeat]_vars

(* ------------------- direct calls of the gate methods ------------------ *)
QubitArgs(n) == (0 - 1)..n

Thetas == 0..MaxTheta

\* the gate objects a caller can construct for a register of n qubits
DirectGates(n) ==
    {Gate(nm, <<q>>, 0) : nm \in {"X", "Y", "H", "S", "T", "I"}, q \in QubitArgs(n)}
    \cup {Gate(nm, <<q>>, th) : nm \in {"Ph", "Rx", "Ry", "Rz"},
                                q \in 0..(n - 1), th \in Thetas}
    \cup {g \in {Gate(nm, <<c, t>>, 0) : nm \in {"CNOT", "CZ"},
                                        c \in QubitArgs(n), t \in QubitArgs(n)} :
            ~InitRaises(g)}

\* a caller about to use gate g on the basis vector |b> of n qubits
Pending(g, n, b) == [fn |-> "pending", gate |-> g, n |-> n, b |-> b, out |-> Raise]

\* gate.apply(state_vector)
DirectApply ==
    /\ call.fn = "pending"
    /\ call' = [call EXCEPT !.fn = "apply",
                            !.out = apply(call.gate, Basis(call.n, call.b))]
    /\ UNCHANGED <<num_qubits, gates, state, applied, ret, samplerVars>>

\* gate.get_operator(n)
DirectGetOperator ==
    /\ call.fn = "pending"
    /\ call.b = 0
    /\ call' = [call EXCEPT !.fn = "get_operator",
                            !.out = get_operator(call.gate, call.n)]
    /\ UNCHANGED <<num_qubits, gates, state, applied, ret, samplerVars>>

InitGates ==
    /\ num_qubits = 1
    /\ gates = <<>>
    /\ state = Basis(1, 0)
    /\ applied = 0
    /\ ret = Returned("__init__", 0)
    /\ sampler = NoSampler
    /\ draws = <<>>
    /\ measurement_results = <<>>
    /\ \E n \in 1..MaxDirectQubits : \E g \in DirectGates(n) :
          \E b \in 0..(Pow2(n) - 1) : call = Pending(g, n, b)

NextGates == DirectApply \/ DirectGetOperator

SpecGates == InitGates /\ [][NextGates]_vars

(* ------------------------------- grover -------------------------------- *)
\* initialize_superposition: Hadamard(qubits=[qubit]).apply for every qubit
RECURSIVE hadamard_each_qubit(_, _, _)
hadamard_each_qubit(state_vector, qubit, n) ==
    IF qubit >= n \/ state_vector.err THEN state_vector
    ELSE hadamard_each_qubit(Hadamard_apply(Gate("H", <<qubit>>, 0), state_vector),
                             qubit + 1, n)

initialize_superposition(n) == hadamard_each_qubit(Basis(n, 0), 0, n)

\* an oracle that turns the marked amplitude by i
Oracle_matrix_quarter_turn(marked_state, n) ==
    IF marked_state >= Pow2(n) THEN Raise
    ELSE Mat(0, Pow2(n), [i \in 0..(Pow2(n) - 1), j \in 0..(Pow2(n) - 1) |->
                            IF i # j THEN CZero
                            ELSE IF i = marked_state THEN CI ELSE COne])

\* Oracle.__init__: np.eye with -1 at [marked_state, marked_state]; an index
\* past the last row raises IndexError
Oracle_matrix(marked_state, n) ==
    IF marked_state >= Pow2(n) THEN Raise
    ELSE Mat(0, Pow2(n), [i \in 0..(Pow2(n) - 1), j \in 0..(Pow2(n) - 1) |->
                            IF i # j THEN CZero
                            ELSE IF i = marked_state THEN CNeg(COne) ELSE COne])

\* twice the mean operator, the identity not subtracted
Diffuser_matrix_mean_only(n) ==
    Mat(2 * n - 2, Pow2(n), [i \in 0..(Pow2(n) - 1), j \in 0..(Pow2(n) - 1) |-> COne])

\* Diffuser.__init__: 2 * np.full(1 / num_states) - np.eye; 2 / 2^n is
\* 1 / sqrt(2)^(2n - 2)
Diffuser_matrix(n) ==
    Mat(2 * n - 2, Pow2(n), [i \in 0..(Pow2(n) - 1), j \in 0..(Pow2(n) - 1) |->
                               IF i = j THEN CInt(1 - Pow2(n - 1)) ELSE COne])

\* Oracle.apply and Diffuser.apply: self.matrix @ state_vector
Oracle_apply(oracle, state_vector) == matmul(oracle, state_vector)

Diffuser_apply(diffuser, state_vector) == matmul(diffuser, state_vector)

\* np.floor(np.pi / 4 * np.sqrt(num_states)): the largest m with
\* 16 m^2 <= pi^2 * num_states, pi^2 taken as 9.8696
RECURSIVE floor_quarter_pi_sqrt(_, _)
floor_quarter_pi_sqrt(num_states, m) ==
    IF 16 * (m + 1) * (m + 1) * 10000 <= 98696 * num_states
    THEN floor_quarter_pi_sqrt(num_states, m + 1)
    ELSE m

\* int(x - 0.5) for a whole x >= 0: int() rounds towards zero
int_minus_half(x) == IF x = 0 THEN 0 ELSE x - 1

\* the number of qubits grover() works on, whatever its argument
grover_num_qubits == 6

\* for _ in range(num_iterations): oracle.apply, then diffuser.apply
RECURSIVE grover_loop(_, _, _, _)
grover_loop(state_vector, oracle, diffuser, num_iterations) ==
    IF num_iterations <= 0 \/ state_vector.err THEN state_vector
    ELSE grover_loop(Diffuser_apply(diffuser, Oracle_apply(oracle, state_vector)),
                     oracle, diffuser, num_iterations - 1)

\* grover(num_qubits, marked_state): its locals and what it returns
grover(num_qubits_arg, marked_state) ==
    LET num_states == Pow2(num_qubits_arg)
        n == grover_num_qubits
        oracle == Oracle_matrix(marked_state, n)
        num_iterations == int_minus_half(floor_quarter_pi_sqrt(num_states, 0))
    IN  [num_qubits |-> n,
         num_iterations |-> num_iterations,
         out |-> IF oracle.err THEN Raise
                 ELSE grover_loop(initialize_superposition(n), oracle,
                                  Diffuser_matrix(n), num_iterations)]

\* the marked states handed to grover for a search over n qubits
MarkedStates(n) == {b \in {0, 2, 10} : b < Pow2(n)}

\* a caller about to run grover(n, b)
PendingGrover(n, b) ==
    [fn |-> "pending_grover", gate |-> Gate("I", <<>>, 0), n |-> n, b |-> b, out |-> Raise]

\* a caller about to apply Oracle(marked_state, n) or Diffuser(n) to |b>
PendingOperator(fn, n, marked_state, b) ==
    [fn |-> fn, gate |-> Gate("I", <<>>, 0), n |-> n, b |-> b, out |-> Raise,
     marked_state |-> marked_state]

\* grover(num_qubits=call.n, marked_state=call.b)
DirectGrover ==
    /\ call.fn = "pending_grover"
    /\ LET r == grover(call.n, call.b)
       IN  call' = [fn |-> "grover", gate |-> call.gate, n |-> call.n, b |-> call.b,
                    out |-> r.out, num_qubits |-> r.num_qubits,
                    num_iterations |-> r.num_iterations]
    /\ UNCHANGED <<num_qubits, gates, state, applied, ret, samplerVars>>

\* Oracle(marked_state, n).apply(state_vector)
DirectOracle ==
    /\ call.fn = "pending_oracle"
    /\ call' = [call EXCEPT !.fn = "oracle",
                            !.out = Oracle_apply(Oracle_matrix(call.marked_state, call.n),
                                                 Basis(call.n, call.b))]
    /\ UNCHANGED <<num_qubits, gates, state, applied, ret, samplerVars>>

\* Diffuser(n).apply(state_vector)
DirectDiffuser ==
    /\ call.fn = "pending_diffuser"
    /\ call' = [call EXCEPT !.fn = "diffuser",
                            !.out = Diffuser_apply(Diffuser_matrix(call.n),
                                                   Basis(call.n, call.b))]
    /\ UNCHANGED <<num_qubits, gates, state, applied, ret, samplerVars>>

InitGrover ==
    /\ num_qubits = 1
    /\ gates = <<>>
    /\ state = Basis(1, 0)
    /\ applied = 0
    /\ ret = Returned("__init__", 0)
    /\ sampler = NoSampler
    /\ draws = <<>>
    /\ measurement_results = <<>>
    /\ \/ \E n \in 1..MaxGroverQubits : \E b \in MarkedStates(n) :
             call = PendingGrover(n, b)
       \/ \E n \in 1..MaxDirectQubits : \E marked_state \in 0..(Pow2(n) - 1) :
             \E b \in 0..(Pow2(n) - 1) :
                call = PendingOperator("pending_oracle", n, marked_state, b)
       \/ \E n \in 1..MaxDirectQubits : \E b \in 0..(Pow2(n) - 1) :
             call = PendingOperator("pending_diffuser", n, 0, b)

NextGrover == DirectGrover \/ DirectOracle \/ DirectDiffuser

SpecGrover == InitGrover /\ [][NextGrover]_vars

(* ------------- operators applied twice, SWAP, superposition ------------ *)
\* np.ones(num_states, dtype=complex) / np.sqrt(num_states)
Uniform(n) == Vec(n, Pow2(n), [i \in 0..(Pow2(n) - 1) |-> COne])

\* (|0...0> + i |1...1>) / sqrt(2)
Skewed(n) ==
    Vec(1, Pow2(n), [i \in 0..(Pow2(n) - 1) |->
                       IF i = 0 THEN COne ELSE IF i = Pow2(n) - 1 THEN CI ELSE CZero])

\* the state vectors a caller hands to an operator of n qubits
InputStates(n) ==
    {Basis(n, b) : b \in 0..(Pow2(n) - 1)} \cup {Uniform(n), Skewed(n)}

\* a caller about to use fn on state vector input: gate for Hadamard,
\* marked_state for Oracle; once is the result of the first application,
\* out that of the last one
PendingTwice(fn, g, n, marked_state, input) ==
    [fn |-> fn, gate |-> g, n |-> n, b |-> 0, out |-> Raise,
     marked_state |-> marked_state, input |-> input, once |-> Raise, times |-> 0]

\* the vector the next application works on
Operand == IF call.times = 0 THEN call.input ELSE call.out

\* state_vector = oracle.apply(state_vector), up to twice with one Oracle
OracleTwice ==
    /\ call.fn = "oracle_twice"
    /\ call.times < 2
    /\ LET r == Oracle_apply(Oracle_matrix(call.marked_state, call.n), Operand)
       IN  call' = [call EXCEPT !.times = @ + 1, !.out = r,
                                !.once = IF call.times = 0 THEN r ELSE @]
    /\ UNCHANGED <<num_qubits, gates, state, applied, ret, samplerVars>>

\* state_vector = diffuser.apply(state_vector), up to twice with one Diffuser
DiffuserTwice ==
    /\ call.fn = "diffuser_twice"
    /\ call.times < 2
    /\ LET r == Diffuser_apply(Diffuser_matrix(call.n), Operand)
       IN  call' = [call EXCEPT !.times = @ + 1, !.out = r,
                                !.once = IF call.times = 0 THEN r ELSE @]
    /\ UNCHANGED <<num_qubits, gates, state, applied, ret, samplerVars>>

\* state_vector = Hadamard(qubits=[t]).apply(state_vector), up to twice
HadamardTwice ==
    /\ call.fn = "hadamard_twice"
    /\ call.times < 2
    /\ LET r == Hadamard_apply(call.gate, Operand)
       IN  call' = [call EXCEPT !.times = @ + 1, !.out = r,
                                !.once = IF call.times = 0 THEN r ELSE @]
    /\ UNCHANGED <<num_qubits, gates, state, applied, ret, samplerVars>>

\* initialize_superposition(call.n)
DirectSuperposition ==
    /\ call.fn = "pending_superposition"
    /\ call' = [call EXCEPT !.fn = "initialize_superposition", !.times = 1,
                            !.out = initialize_superposition(call.n)]
    /\ UNCHANGED <<num_qubits, gates, state, applied, ret, samplerVars>>

\* CNOT(control_qubit=..., target_qubit=...), the call build_circuit makes:
\* CNOT.__init__(self, control, target) has no such keywords, so the
\* constructor raises TypeError and no gate object exists
CNOT_by_keyword(control_qubit, target_qubit) ==
    [err |-> TRUE, gate |-> Gate("CNOT", <<>>, 0)]

\* the three gates of the SWAP branch, in the order they are to be appended,
\* as the positional constructor CNOT(control, target) builds them
swap_gates(q0, q1) ==
    <<Gate("CNOT", <<q0, q1>>, 0), Gate("CNOT", <<q1, q0>>, 0), Gate("CNOT", <<q0, q1>>, 0)>>

\* the three qc.add_gate(CNOT(control_qubit=.., target_qubit=..)) of the SWAP
\* branch from the i-th on: the first constructor that raises ends the branch
RECURSIVE swap_branch(_, _, _, _)
swap_branch(gs, q0, q1, i) ==
    IF i > 3 THEN [gates |-> gs, err |-> FALSE]
    ELSE LET made == CNOT_by_keyword(swap_gates(q0, q1)[i].qubits[1],
                                     swap_gates(q0, q1)[i].qubits[2])
         IN  IF made.err THEN [gates |-> gs, err |-> TRUE]
             ELSE swap_branch(Append(gs, made.gate), q0, q1, i + 1)

\* build_circuit for a request of call.n qubits whose one instruction is
\* SWAP on call.gate.qubits
build_circuit_swap ==
    /\ call.fn = "pending_swap"
    /\ num_qubits' = call.n
    /\ state' = Basis(call.n, 0)
    /\ applied' = 0
    /\ LET built == swap_branch(<<>>, call.gate.qubits[1], call.gate.qubits[2], 1)
       IN  /\ gates' = built.gates
           /\ ret' = IF built.err THEN Raised("build_circuit")
                      ELSE Returned("build_circuit", 0)
    /\ call' = [call EXCEPT !.fn = "build_circuit"]
    /\ UNCHANGED samplerVars

\* the same three gates built as CNOT(q0, q1), CNOT(q1, q0), CNOT(q0, q1)
\* and applied in that order to the caller's basis vector |call.b>
SwapApply ==
    /\ call.fn = "pending_swap"
    /\ LET q0 == call.gate.qubits[1]
           q1 == call.gate.qubits[2]
           r == apply_loop(swap_gates(q0, q1), Basis(call.n, call.b))
       IN  call' = [call EXCEPT !.fn = "swap_applied", !.times = 1,
                                !.out = IF InitRaises(Gate("CNOT", <<q0, q1>>, 0)) \/ r.err
                                        THEN Raise ELSE r.state]
    /\ UNCHANGED <<num_qubits, gates, state, applied, ret, samplerVars>>

InitAlgebra ==
    /\ num_qubits = 1
    /\ gates = <<>>
    /\ state = Basis(1, 0)
    /\ applied = 0
    /\ ret = Returned("__init__", 0)
    /\ sampler = NoSampler
    /\ draws = <<>>
    /\ measurement_results = <<>>
    /\ \E n \in 1..MaxDirectQubits :
          \/ \E marked_state \in 0..(Pow2(n) - 1) : \E input \in InputStates(n) :
                call = PendingTwice("oracle_twice", Gate("I", <<>>, 0), n, marked_state, input)
          \/ \E input \in InputStates(n) :
                call = PendingTwice("diffuser_twice", Gate("I", <<>>, 0), n, 0, input)
          \/ \E t \in 0..(n - 1) : \E input \in InputStates(n) :
                call = PendingTwice("hadamard_twice", Gate("H", <<t>>, 0), n, 0, input)
          \/ call = PendingTwice("pending_superposition", Gate("I", <<>>, 0), n, 0, Basis(n, 0))
          \/ \E q0 \in 0..(n - 1) : \E q1 \in 0..(n - 1) : \E b \in 0..(Pow2(n) - 1) :
                call = [PendingTwice("pending_swap", Gate("SWAP", <<q0, q1>>, 0), n, 0,
                                     Basis(n, b)) EXCEPT !.b = b]

NextAlgebra ==
    \/ OracleTwice
    \/ DiffuserTwice
    \/ HadamardTwice
    \/ DirectSuperposition
    \/ build_circuit_swap
    \/ SwapApply

SpecAlgebra == InitAlgebra /\ [][NextAlgebra]_vars

(* -------------------- circuits of valid unitary gates ------------------ *)
\* the valid gates of the unitary gate set on n qubits: every single-qubit
\* class on the first and on the last qubit, the parametric ones at a quarter
\* turn, CNOT and CZ on qubits 0 and 1 in both orders
UnitaryGates(n) ==
    {Gate(nm, <<q>>, 0) : nm \in {"X", "Y", "H", "S", "T", "I"}, q \in {0, n - 1}}
    \cup {Gate(nm, <<q>>, 1) : nm \in {"Ph", "Rx", "Ry", "Rz"}, q \in {0, n - 1}}
    \cup {g \in {Gate(nm, <<c, t>>, 0) : nm \in {"CNOT", "CZ"},
                                        c \in {0, 1}, t \in {0, 1}} :
            g.qubits[1] < n /\ g.qubits[2] < n /\ g.qubits[1] # g.qubits[2]}

\* the gates a circuit opens with to leave |0...0>: Hadamard and X, and the
\* CNOT that entangles the last two qubits
OpeningGates(n) ==
    {Gate("H", <<n - 1>>, 0), Gate("X", <<0>>, 0)}
    \cup {g \in {Gate("CNOT", <<1, 0>>, 0)} : n >= 2}

\* the gate lists of at most MaxUnitaryGates gates: opening gates, then
\* possibly one gate of the whole set
UnitaryCircuits(n) ==
    {opening \o last :
        opening \in UNION {[1..len -> OpeningGates(n)] : len \in 0..(MaxUnitaryGates - 1)},
        last \in {<<>>} \cup {<<g>> : g \in UnitaryGates(n)}}

\* QuantumCircuit(n) followed by one add_gate per gate of gs
InitUnitary ==
    \E n \in 1..MaxUnitaryQubits : \E gs \in UnitaryCircuits(n) :
        /\ num_qubits = n
        /\ gates = gs
        /\ state = Basis(n, 0)
        /\ applied = 0
        /\ ret = Returned(IF gs = <<>> THEN "__init__" ELSE "add_gate", 0)
        /\ call = NoCall
        /\ sampler = NoSampler
        /\ draws = <<>>
        /\ measurement_results = <<>>

\* a caller that applies the freshly built circuit once, by apply() or by
\* run_simulation
NextUnitary ==
    \/ applied = 0 /\ QuantumCircuit_apply
    \/ applied = 0 /\ run_simulation(1)

SpecUnitary == InitUnitary /\ [][NextUnitary]_vars

\* a caller that hands the freshly built circuit once to run_simulation or,
\* with both error probabilities 0, to run_noisy_simulation
NextIdeal ==
    \/ applied = 0 /\ NotSampled /\ run_simulation(1)
    \/ applied = 0 /\ NotSampled /\ run_noisy_simulation(1, 0, 0)

SpecIdeal == InitUnitary /\ [][NextIdeal]_vars

(* ------------------------ properties: gate algebra --------------------- *)
\* bit q of basis index i of n qubits, qubit 0 the most significant
Bit(i, q, n) == (i \div Pow2(n - 1 - q)) % 2

\* i with bit q flipped
FlipBit(i, q, n) == IF Bit(i, q, n) = 1 THEN i - Pow2(n - 1 - q) ELSE i + Pow2(n - 1 - q)

ValidQubit(q, n) == q >= 0 /\ q < n

\* I (x) ... (x) m (x) ... (x) I with m at position t, entry by entry
TensorAt(m, t, n) ==
    Mat(m.k, Pow2(n),
        [i \in 0..(Pow2(n) - 1), j \in 0..(Pow2(n) - 1) |->
            IF \A q \in 0..(n - 1) : q # t => Bit(i, q, n) = Bit(j, q, n)
            THEN m.a[Bit(i, t, n), Bit(j, t, n)]
            ELSE CZero])

\* column b of an operator, as a state vector
Column(M, b) == Vec(M.k, M.d, [i \in 0..(M.d - 1) |-> M.a[i, b]])

DoneSingle ==
    /\ call.fn \in {"apply", "get_operator"}
    /\ call.gate.name \in SingleNames
    /\ ValidQubit(call.gate.qubits[1], call.n)

\* C1: for every n >= 1, target t in [0, n) and single-qubit gate G, the
\* operator that apply() and get_operator() use is the tensor product with G
\* at position t and the identity elsewhere (so X on qubit t flips bit t,
\* counted from the most significant end, of every basis index).
C1_TensorProductAtTarget ==
    DoneSingle =>
        LET expected == TensorAt(matrix(call.gate), call.gate.qubits[1], call.n)
        IN  IF call.fn = "apply" THEN call.out = Column(expected, call.b)
            ELSE call.out = expected

DoneTwo(name) ==
    /\ call.fn \in {"apply", "get_operator"}
    /\ call.gate.name = name
    /\ ValidQubit(call.gate.qubits[1], call.n)
    /\ ValidQubit(call.gate.qubits[2], call.n)
    /\ call.gate.qubits[1] # call.gate.qubits[2]

\* C2: for every n >= 2 and control # target in [0, n), CNOT.apply completes
\* without error and sends basis index i to i with the target bit flipped
\* when the control bit of i is 1, and to i itself otherwise.
C2_CnotIsPermutation ==
    (DoneTwo("CNOT") /\ call.fn = "apply") =>
        /\ ~call.out.err
        /\ call.out = Basis(call.n,
                            IF Bit(call.b, call.gate.qubits[1], call.n) = 1
                            THEN FlipBit(call.b, call.gate.qubits[2], call.n)
                            ELSE call.b)

Cnot01On2 ==
    /\ call.fn = "apply"
    /\ call.gate = Gate("CNOT", <<0, 1>>, 0)
    /\ call.n = 2

\* C3: on 2 qubits, CNOT(control 0, target 1) maps the basis indices
\* 0 -> 0, 1 -> 1, 2 -> 3, 3 -> 2.
C3_CnotTruthTable ==
    Cnot01On2 =>
        call.out = Basis(2, CASE call.b = 0 -> 0 [] call.b = 1 -> 1
                              [] call.b = 2 -> 3 [] OTHER -> 2)

C3_Witness == Cnot01On2 /\ call.b = 2 /\ ~call.out.err /\ Support(call.out) = {3}

\* C5: for every n >= 2 and control # target in [0, n), the CZ operator is
\* diagonal with -1 exactly at the indices whose control and target bits are
\* both 1 and +1 elsewhere; CZ([a, b]) and CZ([b, a]) are the same operator.
C5_CzDiagonal ==
    (DoneTwo("CZ") /\ call.fn = "get_operator") =>
        LET c == call.gate.qubits[1]
            t == call.gate.qubits[2]
        IN  /\ ~call.out.err
            /\ call.out.k = 0
            /\ call.out.d = Pow2(call.n)
            /\ \A i \in 0..(Pow2(call.n) - 1), j \in 0..(Pow2(call.n) - 1) :
                  call.out.a[i, j] =
                      IF i # j THEN CZero
                      ELSE IF Bit(i, c, call.n) = 1 /\ Bit(i, t, call.n) = 1
                           THEN CNeg(COne) ELSE COne
            /\ call.out = get_operator(Gate("CZ", <<t, c>>, 0), call.n)

C5_Witness ==
    /\ DoneTwo("CZ")
    /\ call.fn = "get_operator"
    /\ call.n = 3
    /\ call.gate.qubits = <<2, 0>>
    /\ call.out.a[5, 5] = CNeg(COne)
    /\ call.out.a[6, 6] = COne

(* ----------------------- properties: QuantumCircuit -------------------- *)
BellGates == <<Gate("H", <<0>>, 0), Gate("CNOT", <<0, 1>>, 0)>>

\* C4: for the 2-qubit circuit [H(0), CNOT(0, 1)] started from |00>, the
\* state after apply() has non-zero, equal probability exactly on indices 0
\* and 3, and measure_state never reports 01 or 10.
C4_BellSupport ==
    (num_qubits = 2 /\ gates = BellGates /\ applied = 1 /\ ~ret.err) =>
        /\ ret.op = "apply" =>
              /\ Support(state) = {0, 3}
              /\ CAbs2(state.a[0]) = CAbs2(state.a[3])
        /\ ret.op = "measure_state" => ret.value \in {0, 3}

InvalidGate(g) == \E i \in DOMAIN g.qubits : ~ValidQubit(g.qubits[i], num_qubits)

\* C6: add_gate validates the qubit indices at the call: a gate with an
\* index that is negative or >= num_qubits is never appended.
C6_AddGateValidates == \A i \in DOMAIN gates : ~InvalidGate(gates[i])

\* C7: a circuit that holds a gate whose qubit index is negative or
\* >= num_qubits never yields a histogram from run_simulation.
C7_InvalidGateNoHistogram ==
    (ret.op = "run_simulation" /\ \E i \in DOMAIN gates : InvalidGate(gates[i]))
        => ret.err

\* G_k(... G_2(G_1(st))), composed from the last gate inwards
RECURSIVE Composed(_, _)
Composed(gs, st) ==
    IF Len(gs) = 0 THEN st
    ELSE apply(gs[Len(gs)], Composed(SubSeq(gs, 1, Len(gs) - 1), st))

\* C8: apply() applies the gates in insertion order, each once, and leaves
\* the gate sequence unchanged; add_gate only appends at the end and never
\* changes the state vector.
C8_ApplyInInsertionOrder ==
    [][ /\ ret'.op = "apply" => gates' = gates
        /\ (ret'.op = "apply" /\ ~ret'.err) => state' = Composed(gates, state)
        /\ ret'.op = "add_gate" =>
              /\ state' = state
              /\ \/ gates' = gates
                 \/ /\ Len(gates') = Len(gates) + 1
                    /\ SubSeq(gates', 1, Len(gates)) = gates ]_vars

\* apply() has run over two gates whose order matters
C8_Witness ==
    /\ ret.op = "apply"
    /\ ~ret.err
    /\ applied = 1
    /\ Len(gates) = 2
    /\ state = Composed(gates, Basis(num_qubits, 0))
    /\ state # Composed(<<gates[2], gates[1]>>, Basis(num_qubits, 0))

\* C9: reset() leaves the gate sequence empty and the state |0...0>, with
\* num_qubits unchanged; a reset after a reset changes nothing.
C9_Reset ==
    [][ ret'.op = "reset" =>
          /\ gates' = <<>>
          /\ num_qubits' = num_qubits
          /\ ~state'.err /\ state'.k = 0 /\ state'.d = Pow2(num_qubits)
          /\ \A i \in 0..(Pow2(num_qubits) - 1) :
                state'.a[i] = IF i = 0 THEN COne ELSE CZero
          /\ ret.op = "reset" => <<num_qubits', gates', state'>> = <<num_qubits, gates, state>>
      ]_vars

C9_Witness ==
    /\ ret.op = "reset"
    /\ gates = <<>>
    /\ state = Basis(num_qubits, 0)
    /\ applied = 0

\* C10: measure_state() returns an index of non-zero probability in the state
\* before the call, leaves the state equal to that basis vector and the gate
\* sequence unchanged; measuring again at once returns the same index.
C10_MeasureCollapses ==
    [][ (ret'.op = "measure_state" /\ ~ret'.err) =>
          /\ ret'.value \in 0..(Pow2(num_qubits) - 1)
          /\ CAbs2(state.a[ret'.value]) # <<0, 0>>
          /\ ~state'.err /\ state'.k = 0 /\ state'.d = Pow2(num_qubits)
          /\ \A i \in 0..(Pow2(num_qubits) - 1) :
                state'.a[i] = IF i = ret'.value THEN COne ELSE CZero
          /\ gates' = gates
          /\ (ret.op = "measure_state" /\ ~ret.err) => ret'.value = ret.value
      ]_vars

\* a measurement of a superposition that returned a non-zero index
C10_Witness ==
    /\ ret.op = "measure_state"
    /\ ~ret.err
    /\ ret.value # 0
    /\ applied >= 1
    /\ \E i \in DOMAIN gates : gates[i].name = "H"
    /\ Support(state) = {ret.value}

(* ------------------- properties: the measurement sampler --------------- *)
\* the basis index a histogram key stands for: the characters between the
\* first and the last one, read as a binary number
KeyIndex(key) == int_base2(SubSeq(key, 2, Len(key) - 1))

\* the sum of the values of a histogram
RECURSIVE SumValues(_)
SumValues(f) ==
    IF DOMAIN f = {} THEN 0
    ELSE LET key == CHOOSE x \in DOMAIN f : TRUE
         IN  f[key] + SumValues([x \in (DOMAIN f) \ {key} |-> f[x]])

\* how many shots reported basis index i
Tally(i) == Cardinality({s \in DOMAIN measurement_results : measurement_results[s] = i})

\* C11: run_simulation(circuit, shots) with shots >= 1 returns a mapping whose
\* values are positive integers that sum to shots, whose keys stand for
\* pairwise distinct basis indices, each of non-zero probability in the
\* state apply() left, and each counted as often as it was drawn.
C11_HistogramOfShots ==
    (ret.op = "run_simulation" /\ ~ret.err) =>
        /\ \A key \in DOMAIN ret.value :
              /\ ret.value[key] \in 1..sampler.num_simulations
              /\ KeyIndex(key) \in 0..(Pow2(num_qubits) - 1)
              /\ CAbs2(state.a[KeyIndex(key)]) # <<0, 0>>
              /\ ret.value[key] = Tally(KeyIndex(key))
        /\ \A k1 \in DOMAIN ret.value, k2 \in DOMAIN ret.value :
              KeyIndex(k1) = KeyIndex(k2) => k1 = k2
        /\ SumValues(ret.value) = sampler.num_simulations

\* two shots of a superposition that fell on the same index
C11_Witness ==
    /\ ret.op = "run_simulation"
    /\ ~ret.err
    /\ sampler.num_simulations = 2
    /\ Cardinality(Support(state)) = 2
    /\ Cardinality(DOMAIN ret.value) = 1
    /\ \E key \in DOMAIN ret.value : ret.value[key] = 2 /\ KeyIndex(key) # 0

\* C13: sampling in run_simulation does not collapse the circuit's state:
\* after it returns, circuit.state is the state its single apply() produced
\* (a basis vector only when that state already was one), every shot is an
\* index of non-zero probability in that one state, and the gate sequence is
\* unchanged.
C13_SamplingDoesNotCollapse ==
    [][ (ret'.op = "run_simulation" /\ ~ret'.err) =>
          /\ state' = Composed(gates, state)
          /\ Len(measurement_results') = sampler'.num_simulations
          /\ \A s \in DOMAIN measurement_results' :
                CAbs2(Composed(gates, state).a[measurement_results'[s]]) # <<0, 0>>
          /\ gates' = gates
      ]_vars

\* two shots of one call that fell on different indices, the state still a
\* superposition afterwards
C13_Witness ==
    /\ ret.op = "run_simulation"
    /\ ~ret.err
    /\ Len(measurement_results) = 2
    /\ measurement_results[1] # measurement_results[2]
    /\ Support(state) = {measurement_results[1], measurement_results[2]}
    /\ gates # <<>>

NoisyReturned == ret.op = "run_noisy_simulation" /\ ~ret.err

SamplerReturned == ret.op \in {"run_simulation", "run_noisy_simulation"} /\ ~ret.err

C14_FatalVersusRenormalised ==
    /\ (ret.op = "run_simulation" /\ ~Normalized(state)) => ret.err
    /\ (ret.op = "run_noisy_simulation" /\ ~sampler.err
           /\ sampler.total_probability \in {"other", "zero"}) =>
          /\ ~ret.err
          /\ Len(measurement_results) = sampler.num_simulations
          /\ SumValues(ret.value) = sampler.num_simulations

\* C15: run_noisy_simulation resolves a profile exactly when gate_error_prob
\* equals a preset's gate_error (0.008 selects ibm_kyiv, 0.012 ibm_brisbane)
\* and then takes single_qubit_error, cnot_error, t1_decay_prob and
\* thermal_prob from it; for any other gate_error_prob no profile is
\* resolved, both gate error rates equal gate_error_prob and both
\* decoherence terms are 0.
C15_ProfileResolution ==
    sampler.fn = "run_noisy_simulation" =>
        LET FromPreset(params) ==
                /\ sampler.profile = params.name
                /\ sampler.single_qubit_error = params.single_qubit_error
                /\ sampler.cnot_error = params.cnot_error
                /\ sampler.t1_decay_prob = params.t1_decay_prob
                /\ sampler.thermal_prob = params.thermal_prob
        IN  /\ sampler.gate_error_prob = 8 =>
                  FromPreset(IBM_PROFILES[1]) /\ sampler.profile = "ibm_kyiv"
            /\ sampler.gate_error_prob = 12 =>
                  FromPreset(IBM_PROFILES[2]) /\ sampler.profile = "ibm_brisbane"
            /\ sampler.gate_error_prob \notin {8, 12} =>
                  /\ sampler.profile = "None"
                  /\ sampler.single_qubit_error = sampler.gate_error_prob
                  /\ sampler.cnot_error = sampler.gate_error_prob
                  /\ sampler.t1_decay_prob = 0
                  /\ sampler.thermal_prob = 0

\* the default gate_error_prob 0.01, which is ibm_kyiv's meas_error and
\* cnot_error, resolved no profile
C15_Witness ==
    /\ NoisyReturned
    /\ sampler.gate_error_prob = 10
    /\ sampler.profile = "None"
    /\ sampler.cnot_error = 10
    /\ sampler.thermal_prob = 0

\* C16: with a resolved profile every shot's reported outcome is derived bit
\* by bit from the true index, one random test per bit: a bit whose test hits
\* is reported flipped (1 -> 0 for T1 decay, 0 -> 1 for thermal excitation)
\* and any other bit unchanged; the uniform substitution is never taken, so
\* neither measurement_error_prob nor meas_error enters the outcome.
C16_ProfileShotsBitByBit ==
    (NoisyReturned /\ sampler.profile # "None") =>
        /\ Len(draws) = sampler.num_simulations
        /\ \A s \in DOMAIN draws :
              /\ draws[s].true_state \in 0..(Pow2(num_qubits) - 1)
              /\ Len(draws[s].rand) = num_qubits
              /\ draws[s].randint = 0 - 1
              /\ measurement_results[s] \in 0..(Pow2(num_qubits) - 1)
              /\ \A q \in 0..(num_qubits - 1) :
                    Bit(measurement_results[s], q, num_qubits) =
                        IF draws[s].rand[q + 1]
                        THEN 1 - Bit(draws[s].true_state, q, num_qubits)
                        ELSE Bit(draws[s].true_state, q, num_qubits)

\* a shot whose true index 01 was reported as 10 although
\* measurement_error_prob was 1.0
C16_Witness ==
    /\ NoisyReturned
    /\ sampler.profile = "ibm_kyiv"
    /\ sampler.measurement_error_prob = 1000
    /\ num_qubits = 2
    /\ draws[1].true_state = 1
    /\ measurement_results[1] = 2

\* C17: with no resolved profile each shot reports either its true index or
\* an index drawn from all of [0, 2^numQubits), after a single random test
\* and no per-bit flip; with measurement_error_prob = 1.0 every shot reports
\* the drawn index, with measurement_error_prob = 0 every shot reports its
\* true index.
C17_BasicShots ==
    (NoisyReturned /\ sampler.profile = "None") =>
        /\ Len(draws) = sampler.num_simulations
        /\ \A s \in DOMAIN draws :
              /\ Len(draws[s].rand) = 1
              /\ IF draws[s].rand[1]
                 THEN /\ draws[s].randint \in 0..(Pow2(num_qubits) - 1)
                      /\ measurement_results[s] = draws[s].randint
                 ELSE measurement_results[s] = draws[s].true_state
              /\ sampler.measurement_error_prob = 1000 => draws[s].rand[1]
              /\ sampler.measurement_error_prob = 0 => ~draws[s].rand[1]

\* gate_error_prob 0 and measurement_error_prob 1.0 on a circuit that stays
\* in |00>: a shot reported 11
C17_Witness ==
    /\ NoisyReturned
    /\ sampler.gate_error_prob = 0
    /\ sampler.measurement_error_prob = 1000
    /\ num_qubits = 2
    /\ Support(sampler.state) = {0}
    /\ ~sampler.perturbed
    /\ draws[1].true_state = 0
    /\ measurement_results[1] = 3

(* --------------------------- properties: grover ------------------------ *)
\* C18: for every numQubits >= 1 and every markedIndex in [0, 2^numQubits),
\* grover(numQubits, markedIndex) builds its initial state, its Oracle and its
\* Diffuser for exactly numQubits qubits and returns a state vector of length
\* 2^numQubits.
C18_GroverUsesNumQubits ==
    call.fn = "grover" =>
        /\ ~call.out.err
        /\ call.num_qubits = call.n
        /\ call.out.d = Pow2(call.n)

\* floor(pi/4 * sqrt(num_states) - 0.5): the largest m >= 0 with
\* (2m + 1)^2 <= pi^2 * num_states / 4, pi^2 taken as 9.8696
RECURSIVE ClaimedIterations(_, _)
ClaimedIterations(num_states, m) ==
    IF 4 * (2 * m + 3) * (2 * m + 3) * 10000 <= 98696 * num_states
    THEN ClaimedIterations(num_states, m + 1)
    ELSE m

\* count rounds of Oracle first, Diffuser second
RECURSIVE OracleThenDiffuser(_, _, _, _)
OracleThenDiffuser(v, marked_state, n, count) ==
    IF count = 0 THEN v
    ELSE OracleThenDiffuser(
            Diffuser_apply(Diffuser_matrix(n),
                           Oracle_apply(Oracle_matrix(marked_state, n), v)),
            marked_state, n, count - 1)

\* C19: grover performs exactly floor(pi/4 * sqrt(2^numQubits) - 0.5)
\* iterations (0 for 1 qubit, 1 for 2 and 3 qubits, 2 for 4, 3 for 5, 5 for
\* 6), each applying the Oracle first and the Diffuser second; with a count
\* of 0 the initial superposition is returned unchanged.
C19_GroverIterations ==
    call.fn = "grover" =>
        /\ call.num_iterations = ClaimedIterations(Pow2(call.n), 0)
        /\ call.out = OracleThenDiffuser(initialize_superposition(call.num_qubits),
                                         call.b, call.num_qubits, call.num_iterations)

\* |x| for a real amplitude
RealAbs(x) == IF x[1] < 0 THEN 0 - x[1] ELSE x[1]

\* C20: for numQubits = 6 and every markedIndex, the probability vector of
\* the state grover returns has its unique maximum at markedIndex (the
\* amplitudes being real, the largest probability is the largest |amplitude|).
C20_GroverFindsMarked ==
    (call.fn = "grover" /\ call.n = 6) =>
        /\ ~call.out.err
        /\ \A i \in 0..(call.out.d - 1) :
              /\ call.out.a[i][2] = 0 /\ call.out.a[i][3] = 0 /\ call.out.a[i][4] = 0
              /\ i # call.b => RealAbs(call.out.a[call.b]) > RealAbs(call.out.a[i])

(* ------------- properties: operators applied twice, SWAP --------------- *)
\* C21: for every n >= 1, initialize_superposition(n), which applies
\* Hadamard(qubits=[q]) for q = 0..n-1 in turn to |0...0>, returns the state
\* whose 2^n amplitudes all equal 1/sqrt(2^n).
C21_UniformSuperposition ==
    call.fn = "initialize_superposition" => call.out = Uniform(call.n)

\* C22: for every n and marked index in [0, 2^n), Oracle.apply negates the
\* amplitude at the marked index and leaves every other amplitude unchanged,
\* and two applications of one Oracle return exactly the original state.
C22_OraclePhaseFlip ==
    (call.fn = "oracle_twice" /\ call.times >= 1) =>
        /\ ~call.once.err
        /\ call.once.d = Pow2(call.n)
        /\ call.once = Vec(call.input.k, call.input.d,
                           [i \in 0..(call.input.d - 1) |->
                               IF i = call.marked_state THEN CNeg(call.input.a[i])
                               ELSE call.input.a[i]])
        /\ call.times = 2 => call.out = call.input

\* a marked amplitude i/sqrt(2) negated by the first application and
\* restored by the second
C22_Witness ==
    /\ call.fn = "oracle_twice"
    /\ call.times = 2
    /\ call.n >= 2
    /\ call.input = Skewed(call.n)
    /\ call.marked_state = Pow2(call.n) - 1
    /\ call.once.a[call.marked_state] = CNeg(CI)
    /\ call.once # call.input
    /\ call.out = call.input

\* the sum of the amplitudes a[0..hi] of a vector
RECURSIVE AmplitudeSum(_, _)
AmplitudeSum(v, hi) ==
    IF hi < 0 THEN CZero ELSE CAdd(AmplitudeSum(v, hi - 1), v.a[hi])

\* 2 * mean(v) - v, amplitude by amplitude: (sum - 2^(n-1) * a_i) / 2^(n-1)
Inverted(v, n) ==
    Vec(v.k + 2 * (n - 1), v.d,
        [i \in 0..(v.d - 1) |->
            CAdd(AmplitudeSum(v, v.d - 1), CNeg(CMul(CInt(Pow2(n - 1)), v.a[i])))])

\* C23: for every n, Diffuser.apply is 2*M - I with every entry of M equal to
\* 1/2^n: it maps each amplitude a_i to 2*mean(a) - a_i, leaves the uniform
\* superposition unchanged, and applied twice returns the original state.
C23_DiffuserInvertsAboutMean ==
    (call.fn = "diffuser_twice" /\ call.times >= 1) =>
        /\ ~call.once.err
        /\ call.once = Inverted(call.input, call.n)
        /\ call.input = Uniform(call.n) => call.once = call.input
        /\ call.times = 2 => call.out = call.input

\* a basis vector of 3 qubits spread by the first application (-3/4 at its
\* own index, 1/4 elsewhere) and restored by the second
C23_Witness ==
    /\ call.fn = "diffuser_twice"
    /\ call.times = 2
    /\ call.n = 3
    /\ call.input = Basis(3, 5)
    /\ call.once.k = 4
    /\ call.once.a[5] = CInt(0 - 3)
    /\ call.once.a[0] = COne
    /\ call.out = call.input

\* C24: for every n >= 1, every qubit t in [0, n) and every n-qubit state,
\* Hadamard(qubits=[t]) applied twice in a row restores the original
\* amplitudes.
C24_HadamardTwice ==
    (call.fn = "hadamard_twice" /\ call.times = 2) =>
        /\ ~call.out.err
        /\ call.out = call.input

\* Hadamard on qubit 0 of 2 qubits changed the state and changed it back
C24_Witness ==
    /\ call.fn = "hadamard_twice"
    /\ call.times = 2
    /\ call.n = 2
    /\ call.gate.qubits = <<0>>
    /\ call.input = Skewed(2)
    /\ ~call.once.err
    /\ call.once # call.input
    /\ call.out = call.input

\* basis index i with bits q0 and q1 exchanged
SwapBits(i, q0, q1, n) ==
    IF Bit(i, q0, n) = Bit(i, q1, n) THEN i ELSE FlipBit(FlipBit(i, q0, n), q1, n)

\* C26: build_circuit turns a SWAP instruction on [q0, q1] into exactly the
\* three gates CNOT(q0,q1), CNOT(q1,q0), CNOT(q0,q1), appended in that order,
\* and for every n >= 2 and q0 # q1 that sequence maps every basis state to
\* the basis state with bits q0 and q1 exchanged.
C26_SwapByThreeCnots ==
    LET q0 == call.gate.qubits[1]
        q1 == call.gate.qubits[2]
    IN  /\ (call.fn = "build_circuit" /\ q0 # q1) =>
              /\ ~ret.err
              /\ gates = swap_gates(q0, q1)
        /\ (call.fn = "swap_applied" /\ q0 # q1) =>
              call.out = Basis(call.n, SwapBits(call.b, q0, q1, call.n))

(* ---------------------- properties: whole circuits --------------------- *)
\* C25: for every n >= 1 and every sequence of valid gates of the unitary
\* gate set applied by apply() from |0...0>, the squared magnitudes of the
\* resulting state sum to 1, so that the normalisation check of
\* run_simulation never fails on such a circuit: when run_simulation raises,
\* it is a gate's apply that raised.
C25_UnitaryKeepsNorm ==
    [][ (applied = 0 /\ applied' = 1) =>
          /\ ~state'.err
          /\ state'.d = Pow2(num_qubits)
          /\ Normalized(state')
          /\ (ret'.op = "run_simulation" /\ ret'.err) => apply_loop(gates, state).err
      ]_vars

\* run_simulation returned for a circuit of a Hadamard and a T gate that
\* left a superposition with amplitudes 1/sqrt(2) and exp(i*pi/4)/sqrt(2)
C25_Witness ==
    /\ ret.op = "run_simulation"
    /\ ~ret.err
    /\ applied = 1
    /\ num_qubits = 3
    /\ gates = <<Gate("H", <<2>>, 0), Gate("T", <<2>>, 0)>>
    /\ Cardinality(Support(state)) = 2
    /\ state.k = 1
    /\ \E i \in Support(state) : state.a[i] = COmega
    /\ Normalized(state)

\* C27: in every state reached from QuantumCircuit(n) by add_gate, apply,
\* reset and measure_state calls, those that end in an error included,
\* num_qubits still equals n and the state vector has exactly 2^n amplitudes.
C27_RegisterSizeFixed ==
    /\ (~state.err /\ state.d = Pow2(num_qubits)
        /\ DOMAIN state.a = 0..(Pow2(num_qubits) - 1))
    /\ [][ /\ num_qubits' = num_qubits
           /\ ~state'.err
           /\ state'.d = Pow2(num_qubits)
           /\ DOMAIN state'.a = 0..(Pow2(num_qubits) - 1) ]_vars

\* a second apply() that raised part way through a 2-qubit circuit
C27_Witness ==
    /\ ret.op = "apply"
    /\ ret.err
    /\ applied = 2
    /\ num_qubits = 2
    /\ Len(gates) = 2
    /\ state.d = 4
    /\ state # Basis(2, 0)

\* C28: apply(), run_simulation and run_noisy_simulation all evolve from the
\* circuit's current state vector, never from a fresh |0...0>, and none of
\* them consumes the gate sequence: a second apply() or run_simulation
\* without reset applies every gate again on top of the evolved state, and
\* run_noisy_simulation after run_simulation starts from the post-apply
\* state, so that without noise its outcomes are those of the gate sequence
\* applied twice.
C28_EvolveFromCurrentState ==
    [][ /\ gates' = gates
        /\ (ret'.op \in {"apply", "run_simulation"} /\ ~ret'.err) =>
              state' = Composed(gates, state)
        /\ (ret'.op \in {"apply", "run_simulation"} /\ ~ret'.err
            /\ applied = 1 /\ state = Composed(gates, Basis(num_qubits, 0))) =>
              state' = Composed(gates \o gates, Basis(num_qubits, 0))
        /\ ret'.op = "run_noisy_simulation" =>
              /\ state' = state
              /\ ~sampler'.err => sampler'.state = Composed(gates, state)
              /\ (~ret'.err /\ ~sampler'.perturbed /\ sampler'.profile = "None"
                  /\ sampler'.measurement_error_prob = 0
                  /\ ret.op = "run_simulation" /\ ~ret.err /\ applied = 1) =>
                    \A s \in DOMAIN measurement_results' :
                        measurement_results'[s] \in
                            Support(Composed(gates \o gates, Basis(num_qubits, 0)))
      ]_vars

\* run_noisy_simulation right after run_simulation on the circuit [H]: the
\* circuit holds H|0>, the noisy run worked on H H |0> = |0> and reported 0
C28_Witness ==
    /\ ret.op = "run_noisy_simulation"
    /\ ~ret.err
    /\ applied = 1
    /\ gates = <<Gate("H", <<0>>, 0)>>
    /\ Cardinality(Support(state)) = 2
    /\ ~sampler.perturbed
    /\ sampler.profile = "None"
    /\ sampler.state = Basis(num_qubits, 0)
    /\ measurement_results = <<0>>

\* C29: if the gate at position k raises during apply(), the error
\* propagates with circuit.state holding the result of the gates before
\* position k (no rollback to the state before the call) and with the gate
\* sequence unchanged; a later apply() then applies those earlier gates
\* again, to the partially evolved state.
C29_NoRollbackOnError ==
    [][ (ret'.op = "apply" /\ ret'.err) =>
          /\ gates' = gates
          /\ \E k \in 1..Len(gates) :
                /\ ~Composed(SubSeq(gates, 1, k - 1), state).err
                /\ apply(gates[k], Composed(SubSeq(gates, 1, k - 1), state)).err
                /\ state' = Composed(SubSeq(gates, 1, k - 1), state)
      ]_vars

\* a second pass of apply() that failed at the gate after the Hadamard: the
\* state holds the Hadamard applied twice, not once
C29_Witness ==
    /\ ret.op = "apply"
    /\ ret.err
    /\ applied = 2
    /\ gates = <<Gate("H", <<0>>, 0), Gate("X", <<num_qubits>>, 0)>>
    /\ state = Composed(<<gates[1], gates[1]>>, Basis(num_qubits, 0))
    /\ state # Composed(<<gates[1]>>, Basis(num_qubits, 0))

\* C30: with gate_error_prob = 0 and measurement_error_prob = 0 no profile is
\* resolved, and run_noisy_simulation on a freshly built circuit computes the
\* final state that run_simulation computes on an identical one, for every
\* valid gate sequence, so that the outcomes the two can report coincide;
\* run_noisy_simulation leaves circuit.state and circuit.gates unchanged.
C30_NoiseFreeMatchesIdeal ==
    [][ (ret'.op = "run_noisy_simulation" /\ sampler'.gate_error_prob = 0
         /\ sampler'.measurement_error_prob = 0) =>
          LET ideal == apply_loop(gates, state)
          IN  /\ sampler'.profile = "None"
              /\ ~sampler'.perturbed
              /\ sampler'.err = ideal.err
              /\ ret'.err = (ideal.err \/ ~Normalized(ideal.state))
              /\ ~ideal.err => sampler'.state = ideal.state
              /\ ~ret'.err =>
                    /\ {shot.noisy_state : shot \in ShotOutcomes(sampler', num_qubits)}
                           = Support(ideal.state)
                    /\ \A s \in DOMAIN measurement_results' :
                           measurement_results'[s] \in Support(ideal.state)
              /\ state' = state
              /\ gates' = gates
      ]_vars

\* a noise-free run_noisy_simulation of [H, S] on 3 qubits that reported the
\* index 1, the circuit still in |000>
C30_Witness ==
    /\ ret.op = "run_noisy_simulation"
    /\ ~ret.err
    /\ sampler.gate_error_prob = 0
    /\ sampler.measurement_error_prob = 0
    /\ num_qubits = 3
    /\ gates = <<Gate("H", <<2>>, 0), Gate("S", <<2>>, 0)>>
    /\ state = Basis(3, 0)
    /\ sampler.state = Composed(gates, Basis(3, 0))
    /\ Support(sampler.state) = {0, 1}
    /\ measurement_results = <<1>>

====
